---- MODULE Spec2Model ----
(***************************************************************************)
(* Model of urdf_trajectory_exporter: the URDF parser                      *)
(* (urdf_parser.py), the joint-state normalizer (models.py) and            *)
(* URDFTrajectoryWriter (writer.py).                                       *)
(*                                                                         *)
(* Attribute values that the code trims and lower-cases (the joint "type") *)
(* are sequences of one-character strings, so that strip() and lower()     *)
(* are computed.  Joint names are only compared and sorted, so they are    *)
(* atomic strings.  Python's None is the absence of a field.               *)
(***************************************************************************)
EXTENDS Naturals, Sequences, FiniteSets

VARIABLES
    urdf,          \* the description document stored at the URDF path
    pc,            \* "new" | "init_raised" | "idle" | "validate" | "returned" | "raised"
    heap,          \* list objects: reference -> content
    _joint_names,  \* self._joint_names: reference of the Writer's list (0 before construction)
    _num_joints,   \* self._num_joints
    got,           \* reference the caller holds from the joint_names accessor (0: none)
    dirs,          \* directories that exist
    files,         \* path -> file content, or NoFile
    format,        \* argument of the running write call
    output_path,   \* argument of the running write call
    rows,          \* local rows of the running write call
    consumed,      \* timesteps the trajectory iterator has yielded so far in this call
    err,           \* the exception that left the last call, or NoErr
    dirs0,         \* directories at the entry of the running call
    files0,        \* files at the entry of the running call
    calls,         \* number of write calls started
    fn_args,       \* arguments of a direct call of a normalizer function
    fn_ret         \* what that call returned or raised

vars == <<urdf, pc, heap, _joint_names, _num_joints, got, dirs, files, format,
          output_path, rows, consumed, err, dirs0, files0, calls, fn_args, fn_ret>>

-----------------------------------------------------------------------------
(* Bounds *)
MaxElems == 2     \* child elements of the document root (parser specification)
MaxJoints == 2    \* length of a target joint order in a direct normalizer call
MaxSteps == 2     \* timesteps a trajectory yields
MaxCalls == 2     \* write calls on one Writer
MaxLen == 2       \* length of a list-form positions / joint_names sequence

-----------------------------------------------------------------------------
(* Characters and strings *)
UpperAlphabet == <<"A","B","C","D","E","F","G","H","I","J","K","L","M",
                   "N","O","P","Q","R","S","T","U","V","W","X","Y","Z">>
LowerAlphabet == <<"a","b","c","d","e","f","g","h","i","j","k","l","m",
                   "n","o","p","q","r","s","t","u","v","w","x","y","z">>
Whitespace == {" ", "\t", "\n", "\r"}

\* str.lower() on one character
lower_char(c) ==
    IF \E k \in 1..Len(UpperAlphabet) : UpperAlphabet[k] = c
    THEN LowerAlphabet[CHOOSE k \in 1..Len(UpperAlphabet) : UpperAlphabet[k] = c]
    ELSE c

\* str.lower()
lower(s) == [k \in 1..Len(s) |-> lower_char(s[k])]

\* str.strip(): drop leading and trailing whitespace
RECURSIVE lstrip(_)
lstrip(s) == IF s # <<>> /\ Head(s) \in Whitespace THEN lstrip(Tail(s)) ELSE s
RECURSIVE rstrip(_)
rstrip(s) ==
    IF s # <<>> /\ s[Len(s)] \in Whitespace THEN rstrip(SubSeq(s, 1, Len(s) - 1)) ELSE s
strip(s) == rstrip(lstrip(s))

\* models.py:7
ACTUATED_JOINT_TYPES ==
    { <<"r","e","v","o","l","u","t","e">>,
      <<"c","o","n","t","i","n","u","o","u","s">>,
      <<"p","r","i","s","m","a","t","i","c">> }

-----------------------------------------------------------------------------
(* Description documents: the root's children, each                        *)
(* [tag, attrib, children]; attrib is a function whose domain is the set   *)
(* of attributes the element carries.                                      *)
JointNames == {"a", "b"}

RawTypes ==
    ACTUATED_JOINT_TYPES \cup
    { <<"f","i","x","e","d">>,
      <<"f","l","o","a","t","i","n","g">>,
      <<>>,
      <<"R","e","v","o","l","u","t","e">>,
      <<"P","R","I","S","M","A","T","I","C">>,
      <<" ","c","o","n","t","i","n","u","o","u","s","\t">>,
      <<"r","e","v"," ","o","l","u","t","e">> }

Attribs ==
    {<<>>} \cup
    {[name |-> n] : n \in JointNames} \cup
    {[type |-> t] : t \in RawTypes} \cup
    {[name |-> n, type |-> t] : n \in JointNames, t \in RawTypes}

Elem(tag, attrib, children) == [tag |-> tag, attrib |-> attrib, children |-> children]

NestedJoint == Elem("joint", [name |-> "b", type |-> <<"r","e","v","o","l","u","t","e">>], <<>>)

Elements ==
    {Elem("joint", a, <<>>) : a \in Attribs} \cup
    { Elem("link", [name |-> "a"], <<>>),
      Elem("link", [name |-> "a"], <<NestedJoint>>),
      Elem("Joint", [name |-> "a", type |-> <<"r","e","v","o","l","u","t","e">>], <<>>),
      Elem("joint", [name |-> "a", type |-> <<"f","i","x","e","d">>], <<NestedJoint>>) }

SeqsUpTo(S, n) == UNION {[1..k -> S] : k \in 0..n}

Docs == SeqsUpTo(Elements, MaxElems)

\* the documents a Writer is constructed from in Spec: revolute joints in
\* either order, a repeated name, and the fixture of tests/test_writer.py:16-35
Revolute(n) == Elem("joint", [name |-> n, type |-> <<"r","e","v","o","l","u","t","e">>], <<>>)

sample_urdf ==
    << Elem("joint", [name |-> "a", type |-> <<"r","e","v","o","l","u","t","e">>], <<>>),
       Elem("joint", [name |-> "fixed_joint", type |-> <<"f","i","x","e","d">>], <<>>),
       Elem("joint", [name |-> "b", type |-> <<"c","o","n","t","i","n","u","o","u","s">>], <<>>) >>

\* a joint name that holds the CSV delimiter and the CSV quote character
QName == "j,\"k"

WriterDocs ==
    { <<Revolute("a")>>,
      <<Revolute(QName)>>,
      <<Revolute("b"), Revolute("a")>>,
      <<Revolute("a"), Revolute("a")>>,
      sample_urdf }

urdf_path == "robot.urdf"

-----------------------------------------------------------------------------
(* Exceptions.  The code raises ValueError everywhere; kind names the      *)
(* raise site.                                                             *)
NoErr == [kind |-> "none"]
NoIndex == [tagged |-> FALSE]
Index(k) == [tagged |-> TRUE, index |-> k]

Ok(v) == [ok |-> TRUE, val |-> v]
Raise(e) == [ok |-> FALSE, err |-> e]

-----------------------------------------------------------------------------
(* urdf_parser.py *)

\* root.findall("joint"): the direct children with tag "joint", in document order
findall_joint(root) == SelectSeq(root, LAMBDA e : e.tag = "joint")

\* scan_joints with the type compared as written (no lower())
RECURSIVE scan_joints_case_sensitive(_, _)
scan_joints_case_sensitive(joints, names) ==
    IF joints = <<>> THEN names
    ELSE LET joint == Head(joints)
             kind == IF "type" \in DOMAIN joint.attrib
                     THEN strip(joint.attrib.type)
                     ELSE <<>>
         IN IF "name" \notin DOMAIN joint.attrib
            THEN scan_joints_case_sensitive(Tail(joints), names)
            ELSE IF kind \in ACTUATED_JOINT_TYPES
                 THEN scan_joints_case_sensitive(Tail(joints),
                                                 Append(names, joint.attrib.name))
                 ELSE scan_joints_case_sensitive(Tail(joints), names)

\* the loop body of lines 22-30, over the joints still to visit
RECURSIVE scan_joints(_, _)
scan_joints(joints, names) ==
    IF joints = <<>> THEN names
    ELSE LET joint == Head(joints)
             kind == IF "type" \in DOMAIN joint.attrib
                     THEN lower(strip(joint.attrib.type))
                     ELSE <<>>
         IN IF "name" \notin DOMAIN joint.attrib
            THEN scan_joints(Tail(joints), names)
            ELSE IF kind \in ACTUATED_JOINT_TYPES
                 THEN scan_joints(Tail(joints), Append(names, joint.attrib.name))
                 ELSE scan_joints(Tail(joints), names)

get_actuated_joint_names(root) ==
    LET names == scan_joints(findall_joint(root), <<>>)
    IN IF names = <<>>
       THEN Raise([kind |-> "EmptyResult", path |-> urdf_path])
       ELSE Ok(names)

-----------------------------------------------------------------------------
(* models.py: joint states.  A state is [positions, joint_names]; positions *)
(* is Dict(f) or List(s); joint_names is absent when it is None.            *)
Dict(f) == [dict |-> f]
List(s) == [list |-> s]
isinstance_dict(p) == "dict" \in DOMAIN p

StateNames == JointNames \cup {"c"}
Values == {0, 1}

DictStates ==
    {[positions |-> Dict(f)] : f \in UNION {[K -> Values] : K \in SUBSET StateNames}}
ListStates ==
    {[positions |-> List(p)] : p \in SeqsUpTo(Values, MaxLen)} \cup
    {[positions |-> List(p), joint_names |-> n] :
        p \in SeqsUpTo(Values, MaxLen), n \in SeqsUpTo(StateNames, MaxLen)}
States == DictStates \cup ListStates

Range(s) == {s[k] : k \in DOMAIN s}

\* dict(zip(names, p)): a later pair overwrites an earlier one with the same name;
\* zip stops at the shorter sequence
dict_zip(names, p) ==
    LET n == IF Len(names) < Len(p) THEN Len(names) ELSE Len(p)
        last(x) == CHOOSE k \in 1..n : names[k] = x /\ \A j \in (k+1)..n : names[j] # x
    IN [x \in {names[k] : k \in 1..n} |-> p[last(x)]]

\* str comparison, as the position in code-point order
NameOrder == <<"a", "b", "c", "fixed_joint", QName, "x">>
str_lt(x, y) ==
    \E i, j \in 1..Len(NameOrder) : NameOrder[i] = x /\ NameOrder[j] = y /\ i < j

\* sorted(S)
RECURSIVE sorted(_)
sorted(S) ==
    IF S = {} THEN <<>>
    ELSE LET m == CHOOSE x \in S : \A y \in S : ~str_lt(y, x)
         IN <<m>> \o sorted(S \ {m})

\* get_positions_dict that pairs a list without joint_names with the Writer's
\* joint order (what the RobotJointState docstring, models.py:17-18, announces)
get_positions_dict_urdf_order(state) ==
    LET p == state.positions
    IN IF isinstance_dict(p) THEN Ok(p.dict)
       ELSE IF "joint_names" \notin DOMAIN state
            THEN Ok(dict_zip(heap[_joint_names], p.list))
            ELSE IF Len(state.joint_names) # Len(p.list)
                 THEN Raise([kind |-> "SchemaError", reason |-> "length",
                             names_len |-> Len(state.joint_names),
                             positions_len |-> Len(p.list), index |-> NoIndex])
                 ELSE Ok(dict_zip(state.joint_names, p.list))

\* models.py:40-52
get_positions_dict(state) ==
    LET p == state.positions
    IN IF isinstance_dict(p) THEN Ok(p.dict)
       ELSE IF "joint_names" \notin DOMAIN state
            THEN Raise([kind |-> "SchemaError", reason |-> "must provide joint_names",
                        index |-> NoIndex])
            ELSE IF Len(state.joint_names) # Len(p.list)
                 THEN Raise([kind |-> "SchemaError", reason |-> "length",
                             names_len |-> Len(state.joint_names),
                             positions_len |-> Len(p.list), index |-> NoIndex])
                 ELSE Ok(dict_zip(state.joint_names, p.list))

\* get_ordered_positions that only looks for missing names (extra names pass)
get_ordered_positions_missing_only(state, joint_names) ==
    LET r == get_positions_dict(state)
    IN IF ~r.ok THEN r
       ELSE LET d == r.val
                missing == Range(joint_names) \ DOMAIN d
            IN IF missing # {}
               THEN Raise([kind |-> "SchemaMismatch",
                           parts |-> <<[label |-> "missing", names |-> sorted(missing)]>>,
                           index |-> NoIndex])
               ELSE Ok([k \in 1..Len(joint_names) |-> d[joint_names[k]]])

\* get_ordered_positions that returns a list-form state's positions as given
get_ordered_positions_list_as_given(state, joint_names) ==
    LET r == get_positions_dict(state)
    IN IF ~r.ok THEN r
       ELSE IF DOMAIN r.val # Range(joint_names)
            THEN Raise([kind |-> "SchemaMismatch", parts |-> <<>>, index |-> NoIndex])
            ELSE IF isinstance_dict(state.positions)
                 THEN Ok([k \in 1..Len(joint_names) |-> r.val[joint_names[k]]])
                 ELSE Ok(state.positions.list)

\* models.py:55-72
get_ordered_positions(state, joint_names) ==
    LET r == get_positions_dict(state)
    IN IF ~r.ok THEN r
       ELSE LET d == r.val
                expected == Range(joint_names)
                actual == DOMAIN d
                missing == expected \ actual
                extra == actual \ expected
                parts ==
                    (IF missing # {}
                     THEN <<[label |-> "missing", names |-> sorted(missing)]>> ELSE <<>>)
                    \o
                    (IF extra # {}
                     THEN <<[label |-> "extra", names |-> sorted(extra)]>> ELSE <<>>)
            IN IF actual # expected
               THEN Raise([kind |-> "SchemaMismatch", parts |-> parts, index |-> NoIndex])
               ELSE Ok([k \in 1..Len(joint_names) |-> d[joint_names[k]]])

-----------------------------------------------------------------------------
(* Heap of list objects *)
SelfRef == 1
CallerRef == 2
Refs == {SelfRef, CallerRef}
NoFile == [exists |-> FALSE]

\* the state before the Writer is constructed
NotConstructed ==
    /\ pc = "new"
    /\ heap = [r \in Refs |-> <<>>]
    /\ _joint_names = 0
    /\ _num_joints = 0
    /\ got = 0
    /\ dirs = {}
    /\ files = [p \in {"out/traj"} |-> NoFile]
    /\ format = "none"
    /\ output_path = "none"
    /\ rows = <<>>
    /\ consumed = <<>>
    /\ err = NoErr
    /\ dirs0 = {}
    /\ files0 = files
    /\ calls = 0

\* no direct call of a normalizer function is under way
NoDirectCall == fn_args = [fn |-> "none"] /\ fn_ret = [fn |-> "none"]

\* URDFTrajectoryWriter.__init__
__init__ ==
    /\ pc = "new"
    /\ LET r == get_actuated_joint_names(urdf)
       IN IF r.ok
          THEN /\ heap' = [heap EXCEPT ![SelfRef] = r.val]
               /\ _joint_names' = SelfRef
               /\ _num_joints' = Len(r.val)
               /\ pc' = "idle"
               /\ err' = NoErr
          ELSE /\ pc' = "init_raised"
               /\ err' = r.err
               /\ UNCHANGED <<heap, _joint_names, _num_joints>>
    /\ UNCHANGED <<urdf, got, dirs, files, format, output_path, rows, consumed,
                   dirs0, files0, calls, fn_args, fn_ret>>

InitParse == urdf \in Docs /\ NotConstructed /\ NoDirectCall
NextParse == __init__
SpecParse == InitParse /\ [][NextParse]_vars

-----------------------------------------------------------------------------
(* Properties of the parser, under SpecParse *)

\* c is d, or the upper-case letter of d
CaseVariant(c, d) ==
    c = d \/ \E m \in 1..Len(UpperAlphabet) : UpperAlphabet[m] = c /\ LowerAlphabet[m] = d

\* t is whitespace, then a case variant of an actuated type, then whitespace
IsActuatedType(t) ==
    \E canon \in ACTUATED_JOINT_TYPES : \E lo \in 0..Len(t) :
        /\ lo + Len(canon) <= Len(t)
        /\ \A k \in 1..lo : t[k] \in Whitespace
        /\ \A k \in 1..Len(canon) : CaseVariant(t[lo + k], canon[k])
        /\ \A k \in (lo + Len(canon) + 1)..Len(t) : t[k] \in Whitespace

IsNamedActuatedJoint(e) ==
    /\ e.tag = "joint"
    /\ "name" \in DOMAIN e.attrib
    /\ "type" \in DOMAIN e.attrib
    /\ IsActuatedType(e.attrib.type)

ExpectedJointOrder(root) ==
    LET sel == SelectSeq(root, IsNamedActuatedJoint)
    IN [k \in 1..Len(sel) |-> sel[k].attrib.name]

\* C6: once construction has run the parser, the joint order is the
\* document-order subsequence of the names of the root's direct-child joint
\* elements that carry a name and an actuated type (trimmed, case-insensitive),
\* duplicates kept; the parser raised EmptyResult, naming the path, exactly when
\* that subsequence is empty; a successful result is never empty.
C6_ParserSubsequence ==
    pc # "new" =>
        /\ (pc = "init_raised") <=> (ExpectedJointOrder(urdf) = <<>>)
        /\ pc = "init_raised" => err = [kind |-> "EmptyResult", path |-> urdf_path]
        /\ pc = "idle" =>
            /\ heap[_joint_names] = ExpectedJointOrder(urdf)
            /\ heap[_joint_names] # <<>>
            /\ _num_joints = Len(ExpectedJointOrder(urdf))

\* a fixed joint, then a continuous joint whose type is padded; only the second is kept
C6_Witness ==
    /\ pc = "idle"
    /\ Len(urdf) = 2
    /\ urdf[1] = Elem("joint", [name |-> "a", type |-> <<"f","i","x","e","d">>], <<>>)
    /\ urdf[2] = Elem("joint",
                      [name |-> "b",
                       type |-> <<" ","c","o","n","t","i","n","u","o","u","s","\t">>], <<>>)
    /\ heap[_joint_names] = <<"b">>

-----------------------------------------------------------------------------
(* Direct calls of the normalizer functions *)
TargetOrders == SeqsUpTo(JointNames, MaxJoints)

call_get_positions_dict ==
    /\ fn_ret.fn = "pending"
    /\ fn_ret' = [fn |-> "get_positions_dict", r |-> get_positions_dict(fn_args.state)]
    /\ UNCHANGED <<urdf, pc, heap, _joint_names, _num_joints, got, dirs, files, format,
                   output_path, rows, consumed, err, dirs0, files0, calls, fn_args>>

call_get_ordered_positions ==
    /\ fn_ret.fn = "pending"
    /\ fn_ret' = [fn |-> "get_ordered_positions",
                  r |-> get_ordered_positions(fn_args.state, fn_args.joint_names)]
    /\ UNCHANGED <<urdf, pc, heap, _joint_names, _num_joints, got, dirs, files, format,
                   output_path, rows, consumed, err, dirs0, files0, calls, fn_args>>

InitNorm ==
    /\ urdf = <<>>
    /\ NotConstructed
    /\ fn_args \in [state : States, joint_names : TargetOrders]
    /\ fn_ret = [fn |-> "pending"]
NextNorm == call_get_positions_dict \/ call_get_ordered_positions
SpecNorm == InitNorm /\ [][NextNorm]_vars

-----------------------------------------------------------------------------
(* writer.py: URDFTrajectoryWriter after construction *)

\* the timesteps a trajectory yields in Spec
Timesteps ==
    { [positions |-> Dict([a |-> 0, b |-> 1])],
      [positions |-> Dict([a |-> 1, b |-> 0])],
      [positions |-> Dict([a |-> 0])],
      [positions |-> Dict([a |-> 1])],
      [positions |-> Dict([b |-> 1])],
      [positions |-> Dict([a |-> 0, b |-> 1, c |-> 0])],
      [positions |-> Dict([c |-> 1])],
      [positions |-> Dict([n \in {QName} |-> 1])],
      [positions |-> List(<<1, 0>>), joint_names |-> <<"b", "a">>],
      [positions |-> List(<<0>>), joint_names |-> <<"a", "b">>],
      [positions |-> List(<<0, 1>>)],
      [positions |-> List(<<0>>)] }

Formats == {"csv", "json", "yaml"}
Paths == {"out/traj"}
\* Path(output_path).parent
parent(path) == "out"

\* a joint_names property that returns the Writer's own list
joint_names_alias == [ref |-> _joint_names, heap |-> heap]

\* writer.py:33-36, the joint_names property: a new list with the same items
joint_names ==
    [ref |-> CallerRef, heap |-> [heap EXCEPT ![CallerRef] = heap[_joint_names]]]

\* writer.py:43-51
_validate_state(state, index) ==
    LET r == get_ordered_positions(state, heap[_joint_names])
    IN IF ~r.ok THEN r
       ELSE IF Len(r.val) # _num_joints
            THEN Raise([kind |-> "ValidationError", index |-> Index(index),
                        expected |-> _num_joints, got |-> Len(r.val)])
            ELSE r

\* the characters of a joint name
chars(name) ==
    IF name = QName THEN <<"j", ",", "\"", "k">>
    ELSE IF name = "fixed_joint" THEN <<"f","i","x","e","d","_","j","o","i","n","t">>
    ELSE <<name>>

\* repr() of the float values 0.0, 1.0, ...
Digits == <<"0", "1", "2", "3", "4", "5", "6", "7", "8", "9">>
float_repr(v) == <<Digits[v + 1], ".", "0">>

\* csv.writer, default dialect: a field is quoted when it holds the delimiter,
\* the quote character or a line-terminator character; quotes are doubled
RECURSIVE double_quotes(_)
double_quotes(f) ==
    IF f = <<>> THEN <<>>
    ELSE (IF Head(f) = "\"" THEN <<"\"", "\"">> ELSE <<Head(f)>>) \o double_quotes(Tail(f))

csv_field(f) ==
    IF \E k \in 1..Len(f) : f[k] \in {",", "\"", "\r", "\n"}
    THEN <<"\"">> \o double_quotes(f) \o <<"\"">>
    ELSE f

RECURSIVE join(_, _)
join(sep, fields) ==
    IF fields = <<>> THEN <<>>
    ELSE IF Len(fields) = 1 THEN fields[1]
    ELSE fields[1] \o sep \o join(sep, Tail(fields))

\* csv.writer.writerow: a lone empty field is written as "" ; lines end in \r\n
writerow(fields) ==
    (IF fields = << <<>> >> THEN <<"\"", "\"">>
     ELSE join(<<",">>, [k \in 1..Len(fields) |-> csv_field(fields[k])]))
    \o <<"\r", "\n">>

RECURSIVE writerows(_)
writerows(rs) ==
    IF rs = <<>> THEN <<>>
    ELSE writerow([k \in 1..Len(rs[1]) |-> float_repr(rs[1][k])]) \o writerows(Tail(rs))

\* _write_csv that writes ",".join(fields) lines, without csv quoting
RECURSIVE plain_lines(_)
plain_lines(rs) ==
    IF rs = <<>> THEN <<>>
    ELSE join(<<",">>, rs[1]) \o <<"\r", "\n">> \o plain_lines(Tail(rs))
_write_csv_plain_join(path, rs) ==
    [files EXCEPT ![path] =
        [exists |-> TRUE, kind |-> "csv",
         text |-> plain_lines(<<[k \in 1..Len(heap[_joint_names]) |->
                                    chars(heap[_joint_names][k])]>>
                              \o [r \in 1..Len(rs) |->
                                    [k \in 1..Len(rs[r]) |-> float_repr(rs[r][k])]])]]

\* writer.py:87-91: the header row, then one row per timestep
_write_csv(path, rs) ==
    [files EXCEPT ![path] =
        [exists |-> TRUE, kind |-> "csv",
         text |-> writerow([k \in 1..Len(heap[_joint_names]) |-> chars(heap[_joint_names][k])])
                  \o writerows(rs)]]

\* writer.py:93-99
_write_json(path, rs) ==
    [files EXCEPT ![path] =
        [exists |-> TRUE, kind |-> "json",
         data |-> [joint_names |-> heap[_joint_names],
                   timesteps |-> [k \in 1..Len(rs) |-> dict_zip(heap[_joint_names], rs[k])]]]]

\* write that opens (and so truncates) the output file before validating
write_mkdir_opens_file ==
    /\ pc \in {"idle", "returned", "raised"}
    /\ calls < MaxCalls
    /\ \E fmt \in Formats, path \in Paths :
        /\ format' = fmt
        /\ output_path' = path
        /\ dirs' = dirs \cup {parent(path)}
        /\ files' = [files EXCEPT ![path] = [exists |-> TRUE, kind |-> fmt, text |-> <<>>]]
    /\ dirs0' = dirs
    /\ files0' = files
    /\ rows' = <<>>
    /\ consumed' = <<>>
    /\ err' = NoErr
    /\ pc' = "validate"
    /\ calls' = calls + 1
    /\ UNCHANGED <<urdf, heap, _joint_names, _num_joints, got, fn_args, fn_ret>>

\* writer.py:73-76: write is entered; the parent directory is created
write_mkdir ==
    /\ pc \in {"idle", "returned", "raised"}
    /\ calls < MaxCalls
    /\ \E fmt \in Formats, path \in Paths :
        /\ format' = fmt
        /\ output_path' = path
        /\ dirs' = dirs \cup {parent(path)}
    /\ dirs0' = dirs
    /\ files0' = files
    /\ rows' = <<>>
    /\ consumed' = <<>>
    /\ err' = NoErr
    /\ pc' = "validate"
    /\ calls' = calls + 1
    /\ UNCHANGED <<urdf, heap, _joint_names, _num_joints, got, files, fn_args, fn_ret>>

\* writer.py:77-78: the trajectory yields one more timestep
write_validate ==
    /\ pc = "validate"
    /\ Len(consumed) < MaxSteps
    /\ \E state \in Timesteps :
        LET r == _validate_state(state, Len(consumed))
        IN /\ consumed' = Append(consumed, state)
           /\ IF r.ok
              THEN /\ rows' = Append(rows, r.val)
                   /\ UNCHANGED <<pc, err>>
              ELSE /\ pc' = "raised"
                   /\ err' = r.err
                   /\ UNCHANGED rows
    /\ UNCHANGED <<urdf, heap, _joint_names, _num_joints, got, dirs, files, format,
                   output_path, dirs0, files0, calls, fn_args, fn_ret>>

\* writer.py:80-81: the trajectory is exhausted, format is "csv"
write_csv ==
    /\ pc = "validate"
    /\ format = "csv"
    /\ files' = _write_csv(output_path, rows)
    /\ pc' = "returned"
    /\ UNCHANGED <<urdf, heap, _joint_names, _num_joints, got, dirs, format, output_path,
                   rows, consumed, err, dirs0, files0, calls, fn_args, fn_ret>>

\* writer.py:82-83: the trajectory is exhausted, format is "json"
write_json ==
    /\ pc = "validate"
    /\ format = "json"
    /\ files' = _write_json(output_path, rows)
    /\ pc' = "returned"
    /\ UNCHANGED <<urdf, heap, _joint_names, _num_joints, got, dirs, format, output_path,
                   rows, consumed, err, dirs0, files0, calls, fn_args, fn_ret>>

\* writer.py:84-85: the trajectory is exhausted, format is neither
write_unsupported ==
    /\ pc = "validate"
    /\ format \notin {"csv", "json"}
    /\ err' = [kind |-> "UnsupportedFormat", received |-> format,
               accepted |-> <<"csv", "json">>, index |-> NoIndex]
    /\ pc' = "raised"
    /\ UNCHANGED <<urdf, heap, _joint_names, _num_joints, got, dirs, files, format,
                   output_path, rows, consumed, dirs0, files0, calls, fn_args, fn_ret>>

\* the caller reads writer.joint_names and appends to the list it got
caller_mutates_joint_names ==
    /\ pc \notin {"new", "init_raised"}
    /\ LET r == joint_names
       IN /\ heap' = [r.heap EXCEPT ![r.ref] = Append(r.heap[r.ref], "x")]
          /\ got' = r.ref
    /\ UNCHANGED <<urdf, pc, _joint_names, _num_joints, dirs, files, format, output_path,
                   rows, consumed, err, dirs0, files0, calls, fn_args, fn_ret>>

\* the states right after URDFTrajectoryWriter(urdf_path) returned (writer.py:29-31)
Init ==
    /\ urdf \in WriterDocs
    /\ get_actuated_joint_names(urdf).ok
    /\ pc = "idle"
    /\ heap = [r \in Refs |-> IF r = SelfRef THEN get_actuated_joint_names(urdf).val ELSE <<>>]
    /\ _joint_names = SelfRef
    /\ _num_joints = Len(get_actuated_joint_names(urdf).val)
    /\ got = 0
    /\ dirs \in {{}, {"out"}}
    /\ files = [p \in Paths |-> NoFile]
    /\ format = "none"
    /\ output_path = "none"
    /\ rows = <<>>
    /\ consumed = <<>>
    /\ err = NoErr
    /\ dirs0 = dirs
    /\ files0 = files
    /\ calls = 0
    /\ NoDirectCall

Next ==
    \/ write_mkdir
    \/ write_validate
    \/ write_csv
    \/ write_json
    \/ write_unsupported
    \/ caller_mutates_joint_names

Spec == Init /\ [][Next]_vars

-----------------------------------------------------------------------------
(* Properties of the normalizer, under SpecNorm *)

\* to_mapping is defined on the state: mapping form, or list form with a name
\* sequence of the same length
MappingDefined(s) ==
    \/ isinstance_dict(s.positions)
    \/ /\ "joint_names" \in DOMAIN s
       /\ Len(s.joint_names) = Len(s.positions.list)

\* the names of a state on which to_mapping is defined
KeySet(s) ==
    IF isinstance_dict(s.positions) THEN DOMAIN s.positions.dict ELSE Range(s.joint_names)

\* the value a state associates with name n: for the list form, the value paired
\* with the last occurrence of n
Lookup(s, n) ==
    IF isinstance_dict(s.positions) THEN s.positions.dict[n]
    ELSE LET ks == {k \in 1..Len(s.joint_names) : s.joint_names[k] = n}
         IN s.positions.list[CHOOSE k \in ks : \A j \in ks : j <= k]

IsSortedListOf(q, S) ==
    /\ Range(q) = S
    /\ Len(q) = Cardinality(S)
    /\ \A i, j \in 1..Len(q) : i < j => str_lt(q[i], q[j])

\* C4: on a state to_mapping accepts, to_ordered succeeds exactly when the key
\* set equals the set of target names; otherwise it raises SchemaMismatch whose
\* message has a "missing" segment (the sorted target names not in the state)
\* exactly when there are such names, and an "extra" segment (the sorted state
\* names not in the target) exactly when there are such names.
C4_MismatchDetection ==
    (fn_ret.fn = "get_ordered_positions" /\ MappingDefined(fn_args.state)) =>
        LET r == fn_ret.r
            keys == KeySet(fn_args.state)
            target == Range(fn_args.joint_names)
            missing == target \ keys
            extra == keys \ target
            Segment(label, S) ==
                /\ (S # {}) <=> (\E k \in 1..Len(r.err.parts) : r.err.parts[k].label = label)
                /\ \A k \in 1..Len(r.err.parts) :
                      r.err.parts[k].label = label => IsSortedListOf(r.err.parts[k].names, S)
        IN /\ r.ok <=> (keys = target)
           /\ ~r.ok =>
                /\ r.err.kind = "SchemaMismatch"
                /\ Segment("missing", missing)
                /\ Segment("extra", extra)
                /\ Len(r.err.parts) = (IF missing # {} THEN 1 ELSE 0)
                                       + (IF extra # {} THEN 1 ELSE 0)

\* target [a, b] against keys {a, c}: both segments are reported
C4_Witness ==
    /\ fn_ret.fn = "get_ordered_positions"
    /\ fn_args.joint_names = <<"a", "b">>
    /\ isinstance_dict(fn_args.state.positions)
    /\ DOMAIN fn_args.state.positions.dict = {"a", "c"}
    /\ ~fn_ret.r.ok
    /\ fn_ret.r.err.parts = <<[label |-> "missing", names |-> <<"b">>],
                              [label |-> "extra", names |-> <<"c">>]>>

\* the name/value pairs of a state on which to_mapping is defined
PairSet(s) ==
    IF isinstance_dict(s.positions)
    THEN {<<n, s.positions.dict[n]>> : n \in DOMAIN s.positions.dict}
    ELSE {<<s.joint_names[k], s.positions.list[k]>> : k \in 1..Len(s.joint_names)}

\* no name is paired with two values
Functional(P) == \A x, y \in P : x[1] = y[1] => x = y

\* C5: when to_ordered succeeds, the row has the target order's length and its
\* i-th value is the state's value for the i-th target name (repeated target
\* names included); every state with the same name/value pairs, in whatever
\* order they were given and in either form, yields the same row.
C5_OrderedByTarget ==
    (fn_ret.fn = "get_ordered_positions" /\ fn_ret.r.ok) =>
        LET s == fn_args.state
            t == fn_args.joint_names
            row == fn_ret.r.val
        IN /\ DOMAIN row = 1..Len(t)
           /\ \A i \in 1..Len(t) : row[i] = Lookup(s, t[i])
           /\ Functional(PairSet(s)) =>
                \A s2 \in States :
                    (MappingDefined(s2) /\ PairSet(s2) = PairSet(s)) =>
                        get_ordered_positions(s2, t) = Ok(row)

\* a list-form state given in the order b, a, read in the order a, b, a
C5_Witness ==
    /\ fn_ret.fn = "get_ordered_positions"
    /\ fn_args.joint_names = <<"a", "b">>
    /\ "joint_names" \in DOMAIN fn_args.state
    /\ fn_args.state.joint_names = <<"b", "a">>
    /\ fn_args.state.positions = List(<<1, 0>>)
    /\ fn_ret.r = Ok(<<0, 1>>)

-----------------------------------------------------------------------------
(* Properties of URDFTrajectoryWriter.write, under Spec *)

InCall == pc \in {"validate", "raised", "returned"}

\* a state that passes normalization against joint order J
ValidFor(s, J) == MappingDefined(s) /\ KeySet(s) = Range(J)

\* csv.reader, default dialect, over text t: mode "u" outside quotes, "q"
\* inside; field and rec are the field and the record being read
RECURSIVE CsvRead(_, _, _, _, _)
CsvRead(t, mode, field, rec, recs) ==
    IF t = <<>>
    THEN IF field = <<>> /\ rec = <<>> THEN recs ELSE Append(recs, Append(rec, field))
    ELSE LET c == Head(t)
             rest == Tail(t)
         IN IF mode = "q"
            THEN IF c = "\""
                 THEN IF rest # <<>> /\ Head(rest) = "\""
                      THEN CsvRead(Tail(rest), "q", Append(field, "\""), rec, recs)
                      ELSE CsvRead(rest, "u", field, rec, recs)
                 ELSE CsvRead(rest, "q", Append(field, c), rec, recs)
            ELSE IF c = ","
                 THEN CsvRead(rest, "u", <<>>, Append(rec, field), recs)
                 ELSE IF c = "\r" /\ rest # <<>> /\ Head(rest) = "\n"
                      THEN CsvRead(Tail(rest), "u", <<>>, <<>>, Append(recs, Append(rec, field)))
                      ELSE IF c \in {"\r", "\n"}
                           THEN CsvRead(rest, "u", <<>>, <<>>,
                                        Append(recs, Append(rec, field)))
                           ELSE IF c = "\"" /\ field = <<>>
                                THEN CsvRead(rest, "q", field, rec, recs)
                                ELSE CsvRead(rest, "u", Append(field, c), rec, recs)

\* the records read back from a CSV file
Records(content) == CsvRead(content.text, "u", <<>>, <<>>, <<>>)

\* content holds one serialized timestep per consumed timestep
Complete(content) ==
    /\ content.exists
    /\ \A k \in 1..Len(consumed) : ValidFor(consumed[k], heap[_joint_names])
    /\ content.kind = "csv" => Len(Records(content)) = Len(consumed) + 1
    /\ content.kind = "json" => Len(content.data.timesteps) = Len(consumed)

\* C1: during and after a write call every file holds what it held when the
\* call was entered, except the output file after a successful return, which
\* then holds every timestep of a fully valid trajectory; so a call in which a
\* timestep failed leaves the output file as it was (missing stays missing).
C1_AllOrNothing ==
    InCall =>
        /\ \A p \in Paths :
              \/ files[p] = files0[p]
              \/ p = output_path /\ pc = "returned" /\ Complete(files[p])
        /\ (pc = "raised" /\ err.kind # "UnsupportedFormat") => files = files0

\* a second call fails on its second timestep over a file the first call wrote
C1_Witness ==
    /\ calls = 2
    /\ pc = "raised"
    /\ err.kind = "SchemaMismatch"
    /\ Len(consumed) = 2
    /\ files0[output_path].exists
    /\ files = files0

\* C2: a write call whose format is neither "csv" nor "json" changes nothing
\* in the filesystem (no parent directory, no file) and ends by raising
\* UnsupportedFormat naming the received token and the two accepted ones.
C2_UnsupportedBeforeIO ==
    (InCall /\ format \notin {"csv", "json"}) =>
        /\ dirs = dirs0
        /\ files = files0
        /\ pc # "returned"
        /\ pc = "raised" =>
              err = [kind |-> "UnsupportedFormat", received |-> format,
                     accepted |-> <<"csv", "json">>, index |-> NoIndex]

\* C3: a SchemaError or SchemaMismatch that leaves write is tagged with the
\* zero-based index of the timestep that raised it, the first failing one.
C3_ErrorTaggedWithIndex ==
    (pc = "raised" /\ err.kind \in {"SchemaError", "SchemaMismatch"}) =>
        /\ \A k \in 1..(Len(consumed) - 1) : ValidFor(consumed[k], heap[_joint_names])
        /\ err.index = Index(Len(consumed) - 1)

\* a list-form state to_mapping rejects: no name sequence, or one of another length
RejectedList(s) ==
    /\ ~isinstance_dict(s.positions)
    /\ \/ "joint_names" \notin DOMAIN s
       \/ Len(s.joint_names) # Len(s.positions.list)

C8_RoundTrip ==
    pc = "returned" =>
        LET J == heap[_joint_names]
            N == Len(consumed)
            c == files[output_path]
        IN /\ c.exists
           /\ c.kind = format
           /\ format = "csv" =>
                LET recs == Records(c)
                IN /\ Len(recs) = N + 1
                   /\ recs[1] = [i \in 1..Len(J) |-> chars(J[i])]
                   /\ \A k \in 1..N :
                         /\ DOMAIN recs[k + 1] = 1..Len(J)
                         /\ \A i \in 1..Len(J) :
                               recs[k + 1][i] = float_repr(Lookup(consumed[k], J[i]))
           /\ format = "json" =>
                /\ c.data.joint_names = J
                /\ Len(c.data.timesteps) = N
                /\ \A k \in 1..N :
                      /\ DOMAIN c.data.timesteps[k] = Range(J)
                      /\ \A n \in Range(J) :
                            c.data.timesteps[k][n] = Lookup(consumed[k], n)

\* two different timesteps, the second in list form, written as CSV and read back
C8_Witness ==
    /\ pc = "returned"
    /\ format = "csv"
    /\ Len(consumed) = 2
    /\ ~isinstance_dict(consumed[2].positions)
    /\ Len(Records(files[output_path])) = 3
    /\ Records(files[output_path])[2] # Records(files[output_path])[3]

\* the joint order the parser returns for the Writer's document
ParsedOrder == get_actuated_joint_names(urdf).val

\* C9: whatever write calls and caller-side changes of lists obtained from the
\* joint_names accessor have happened, the Writer's joint order is the
\* parser's result and num_joints is its length; and what a write call has
\* produced is determined by that joint order and the call's own arguments:
\* its rows, the file it wrote and the error it raised.
C9_WriterStateReadOnly ==
    LET J0 == ParsedOrder
        N == Len(consumed)
        failed == pc = "raised" /\ err.kind # "UnsupportedFormat"
        passed == IF failed THEN N - 1 ELSE N
    IN /\ heap[_joint_names] = J0
       /\ _num_joints = Len(J0)
       /\ InCall =>
            /\ rows = [k \in 1..passed |-> get_ordered_positions(consumed[k], J0).val]
            /\ failed => err = get_ordered_positions(consumed[N], J0).err
            /\ (pc = "returned" /\ format = "csv") =>
                  files[output_path] = _write_csv(output_path, rows)[output_path]
            /\ (pc = "returned" /\ format = "json") =>
                  files[output_path].data.joint_names = J0

\* a second successful call, after the caller changed a list it got from the accessor
C9_Witness ==
    /\ calls = 2
    /\ pc = "returned"
    /\ Len(consumed) = 1
    /\ files0[output_path].exists
    /\ got # 0
    /\ heap[got] # heap[_joint_names]

\* all timesteps of the running call have been consumed and have passed
Exhausted == pc = "returned" \/ (pc = "raised" /\ err.kind = "UnsupportedFormat")

\* C10: within a write call the filesystem (the parent directory included)
\* changes only after every timestep has been consumed and has passed
\* validation.
C10_ValidateBeforeIO ==
    (InCall /\ (dirs # dirs0 \/ files # files0)) => Exhausted
====
